---- MODULE Spec2Model ----
(***************************************************************************)
(* Model of the two Gradio handlers of                                     *)
(* Water_Body_Detection_from_Satellite_Imagery.ipynb:                      *)
(*   create_false_color_composite(tiff_file)                               *)
(*   highlight_water_bodies(tiff_file, ndwi_threshold)                     *)
(*                                                                         *)
(* Arithmetic is exact: a real number is a pair <<num, den>> of integers   *)
(* with den >= 0, percentiles are kept in hundredths, and den = 0 stands   *)
(* for NaN and inf.  Samples are small integers: no subtraction overflows  *)
(* the bands' integer type, and the float rounding of a quotient is not    *)
(* modelled; the truncation of .astype(np.uint8) is.                       *)
(***************************************************************************)
EXTENDS Integers, Sequences, FiniteSets, TLC

VARIABLES
    tiff_file,     \* the uploaded file, as rasterio would decode it
    numpy_build,   \* what the installed numpy does where its result is unspecified
    call,          \* the last handler invoked and its arguments
    outcome,       \* what that invocation gave its caller: an image or a raised error
    frame          \* the locals of that invocation when it returned

vars == <<tiff_file, numpy_build, call, outcome, frame>>

----------------------------------------------------------------------------
(* Bounds of the model *)

MaxSample == 3
MaxBands == 8

\* band samples: a negative value, zero, and two positive values
Samples == {0 - 1, 0, 1, MaxSample}

\* height x width of the rasters drawn: two pixels, as a row and as a column
Shapes == {<<1, 2>>, <<2, 1>>}

\* values of the ndwi_threshold argument: 0, 0.2 (the slider's default), 0.5
Thresholds == {<<0, 1>>, <<1, 5>>, <<1, 2>>}

----------------------------------------------------------------------------
(* Rasters *)

Pos(h, w) == (1..h) \X (1..w)

ZeroBand(h, w) == [p \in Pos(h, w) |-> 0]

NoFile == [kind |-> "none", count |-> 0, height |-> 0, width |-> 0, bands |-> <<>>]

Unreadable == [kind |-> "unreadable", count |-> 0, height |-> 0, width |-> 0, bands |-> <<>>]

Dataset(c, h, w, bs) ==
    [kind |-> "dataset", count |-> c, height |-> h, width |-> w, bands |-> bs]

\* src.read(i): band i of the open dataset (1-indexed)
read(src, i) == src.bands[i]

----------------------------------------------------------------------------
(* Real numbers of numpy: <<num, den>> with den >= 0; den = 0 is NaN or inf *)

IsFinite(q) == q[2] # 0

FromInt(v) == <<v, 1>>

\* a - b
Sub(a, b) ==
    IF a[2] = b[2] THEN <<a[1] - b[1], a[2]>>
    ELSE <<a[1] * b[2] - b[1] * a[2], a[2] * b[2]>>

\* a / b, true division: a zero divisor gives NaN or inf with a warning, no exception
Div(a, b) ==
    LET same == a[2] = b[2] /\ a[2] # 0
        n == IF same THEN a[1] ELSE a[1] * b[2]
        d == IF same THEN b[1] ELSE a[2] * b[1]
    IN  IF d < 0 THEN <<0 - n, 0 - d>> ELSE <<n, d>>

\* a * 255
Times255(a) == <<a[1] * 255, a[2]>>

\* a < b; every comparison with NaN is False
Less(a, b) == IsFinite(a) /\ IsFinite(b) /\ a[1] * b[2] < b[1] * a[2]

\* a >= b: the mask comparison made non-strict
GreaterOrEqual(a, b) == IsFinite(a) /\ IsFinite(b) /\ a[1] * b[2] >= b[1] * a[2]

\* a > b, the comparison of "ndwi > ndwi_threshold"
Greater(a, b) == IsFinite(a) /\ IsFinite(b) /\ a[1] * b[2] > b[1] * a[2]

\* truncation toward zero of a finite real
Trunc(q) == IF q[1] >= 0 THEN q[1] \div q[2] ELSE 0 - ((0 - q[1]) \div q[2])

\* .astype(np.uint8): truncation toward zero into 8 bits; the cast of NaN or inf
\* is unspecified and gives whatever the build gives
astype_uint8(q, build) == IF IsFinite(q) THEN Trunc(q) % 256 ELSE build.nan_cast

----------------------------------------------------------------------------
(* What a handler gives its caller *)

NoException == [type |-> "none", text |-> "", count |-> 0 - 1, inner |-> ""]

\* gr.Error(message): text is the message's template, count the band count
\* formatted into it (-1: none), inner the message of the exception wrapped into it
GrError(text, count, inner) ==
    [type |-> "gr.Error", text |-> text, count |-> count, inner |-> inner]

RasterioIOError ==
    [type |-> "RasterioIOError", text |-> "rasterio could not open the file",
     count |-> 0 - 1, inner |-> ""]

\* raised by np.percentile on an empty array
IndexError ==
    [type |-> "IndexError", text |-> "index -1 is out of bounds for axis 0 with size 0",
     count |-> 0 - 1, inner |-> ""]

PleaseUpload == "Please upload a TIFF file."

FailedToRead == "Failed to read the file. Please ensure it's a valid GeoTIFF file."

OnlyBands7 == "Input image has only {src.count} bands, but at least 7 are required."

OnlyBands5 == "Input image has only {src.count} bands. At least 5 bands are required for this analysis."

Unexpected == "An unexpected error occurred: {e}"

NoFrame == [fn |-> "none"]

\* an exception leaves the function: fr holds the locals bound by then
RaiseFrom(exc, fr) == [kind |-> "raise", exc |-> exc, image |-> <<>>, frame |-> fr]

Raise(exc) == RaiseFrom(exc, NoFrame)

Return(image, fr) == [kind |-> "return", exc |-> NoException, image |-> image, frame |-> fr]

\* the except clauses shared by both handlers: RasterioIOError first, then
\* Exception, which also catches the gr.Error raised inside the try block
TryExcept(r) ==
    IF r.kind # "raise" THEN r
    ELSE IF r.exc.type = "RasterioIOError"
         THEN Raise(GrError(FailedToRead, 0 - 1, ""))
         ELSE RaiseFrom(GrError(Unexpected, r.exc.count, r.exc.text), r.frame)

----------------------------------------------------------------------------
(* create_false_color_composite *)

\* the natural-colour triplet (red 4, green 3, blue 2) in place of 7-3-2
NaturalColorBands == <<4, 3, 2>>

\* the bands read as red, green and blue: 7 (SWIR 2), 3 (Green), 2 (Blue)
CompositeBands == <<7, 3, 2>>

\* np.dstack((red, green, blue)): height x width x 3
dstack(r, g, b) == [p \in DOMAIN r |-> <<r[p], g[p], b[p]>>]

ArrayValues(a) == {a[p][c] : p \in DOMAIN a, c \in 1..3}

\* the minimum of the first channel alone, in place of the joint minimum
FirstChannelMin(a) ==
    CHOOSE m \in {a[p][1] : p \in DOMAIN a} : \A p \in DOMAIN a : m <= a[p][1]

\* a.min(), over the whole array
ArrayMin(a) == CHOOSE m \in ArrayValues(a) : \A v \in ArrayValues(a) : m <= v

\* a.max(), over the whole array
ArrayMax(a) == CHOOSE m \in ArrayValues(a) : \A v \in ArrayValues(a) : m >= v

\* the flat-image guard left out
NeverFlat(min_val, max_val) == FALSE

\* the guard "if max_val == min_val"
IsFlat(min_val, max_val) == max_val = min_val

\* np.zeros_like(a, dtype=np.uint8)
zeros_like(a) == [p \in DOMAIN a |-> <<0, 0, 0>>]

CompositeFrame(min_val, max_val, divided) ==
    [fn |-> "create_false_color_composite",
     min_val |-> min_val, max_val |-> max_val, divided |-> divided]

\* the body of the with statement
CompositeBody(src, build) ==
    IF src.count < 7
    THEN Raise(GrError(OnlyBands7, src.count, ""))
    ELSE LET red == read(src, CompositeBands[1])
             green == read(src, CompositeBands[2])
             blue == read(src, CompositeBands[3])
             false_color_composite == dstack(red, green, blue)
             min_val == ArrayMin(false_color_composite)
             max_val == ArrayMax(false_color_composite)
             normalized ==
                 [p \in DOMAIN false_color_composite |->
                     [c \in 1..3 |->
                         Div(FromInt(false_color_composite[p][c] - min_val),
                             FromInt(max_val - min_val))]]
             image_uint8 ==
                 [p \in DOMAIN normalized |->
                     [c \in 1..3 |-> astype_uint8(Times255(normalized[p][c]), build)]]
         IN  IF IsFlat(min_val, max_val)
             THEN Return(zeros_like(false_color_composite),
                         CompositeFrame(min_val, max_val, FALSE))
             ELSE Return(image_uint8, CompositeFrame(min_val, max_val, TRUE))

create_false_color_composite(file, build) ==
    IF file.kind = "none"
    THEN Raise(GrError(PleaseUpload, 0 - 1, ""))
    ELSE TryExcept(IF file.kind = "unreadable"
                   THEN Raise(RasterioIOError)
                   ELSE CompositeBody(file, build))

----------------------------------------------------------------------------
(* highlight_water_bodies *)

\* the positions of an array in the order numpy visits them (row-major)
RowMajor(h, w) == [i \in 1..(h * w) |-> <<((i - 1) \div w) + 1, ((i - 1) % w) + 1>>]

\* band[band > 0]: the strictly positive samples, as a 1-D array
PositiveSamples(band, h, w) ==
    LET flat == [i \in 1..(h * w) |-> band[RowMajor(h, w)[i]]]
    IN  SelectSeq(flat, LAMBDA v : v > 0)

RECURSIVE Insert(_, _)
Insert(v, s) ==
    IF s = <<>> THEN <<v>>
    ELSE IF v <= Head(s) THEN <<v>> \o s
         ELSE <<Head(s)>> \o Insert(v, Tail(s))

RECURSIVE Sorted(_)
Sorted(s) == IF s = <<>> THEN <<>> ELSE Insert(Head(s), Sorted(Tail(s)))

\* the interpolation of np.percentile(a, q), method "linear", a not empty: the
\* virtual index is (n - 1) * q / 100, the result lies between its two neighbours
Interpolate(a, q) ==
    LET n == Len(a)
        s == Sorted(a)
        lo == ((n - 1) * q) \div 100
        g == ((n - 1) * q) % 100
        hi == IF lo + 1 < n THEN lo + 1 ELSE n - 1
    IN  <<100 * s[lo + 1] + g * (s[hi + 1] - s[lo + 1]), 100>>

NaN == <<0, 0>>

\* np.nanpercentile in place of np.percentile: NaN for an empty array, no exception
nanpercentile(a, q) ==
    [raised |-> FALSE, value |-> IF a = <<>> THEN NaN ELSE Interpolate(a, q)]

\* np.percentile(a, q): an empty array raises IndexError
percentile(a, q) ==
    IF a = <<>>
    THEN [raised |-> TRUE, value |-> NaN]
    ELSE [raised |-> FALSE, value |-> Interpolate(a, q)]

\* np.clip(v, lo, hi) = minimum(maximum(v, lo), hi); NaN bounds give NaN
Clip(v, lo, hi) ==
    IF ~IsFinite(lo) \/ ~IsFinite(hi) THEN NaN
    ELSE LET m == IF Less(v, lo) THEN lo ELSE v
         IN  IF Less(hi, m) THEN hi ELSE m

\* normalize_band(band): [raised, p2, p98, scaled]
normalize_band(band, h, w) ==
    LET positive == PositiveSamples(band, h, w)
        q2 == percentile(positive, 2)
        q98 == percentile(positive, 98)
        p2 == q2.value
        p98 == q98.value
        stretched == [p \in DOMAIN band |-> Clip(FromInt(band[p]), p2, p98)]
        scaled == [p \in DOMAIN band |-> Div(Sub(stretched[p], p2), Sub(p98, p2))]
    IN  [raised |-> q2.raised \/ q98.raised, p2 |-> p2, p98 |-> p98, scaled |-> scaled]

\* the division without its where= guard
divide_everywhere(num, den) == Div(FromInt(num), FromInt(den))

\* np.divide(num, den, out=zeros, where=(den != 0)), at one pixel
divide_where(num, den) ==
    IF den # 0 THEN Div(FromInt(num), FromInt(den)) ELSE FromInt(0)

\* the water colour written over the masked pixels
HighlightColor == <<60, 130, 255>>

\* a plain assignment in place of a.copy(): the same array under a second name
SameArray(heap, r) == [heap |-> heap, ref |-> r]

\* a.copy(): arrays live on a heap and are named by reference, copy allocates
ArrayCopy(heap, r) ==
    LET new == Cardinality(DOMAIN heap) + 1
    IN  [heap |-> [x \in (DOMAIN heap) \cup {new} |-> IF x = new THEN heap[r] ELSE heap[x]],
         ref |-> new]

\* a[mask] = color, in place
MaskedAssign(heap, r, mask, color) ==
    [heap EXCEPT ![r] = [p \in DOMAIN @ |-> IF mask[p] THEN color ELSE @[p]]]

\* the body of the with statement
WaterBody(src, ndwi_threshold, build) ==
    IF src.count < 5
    THEN Raise(GrError(OnlyBands5, src.count, ""))
    ELSE LET h == src.height
             w == src.width
             red == read(src, 4)
             green == read(src, 3)
             blue == read(src, 2)
             nir == read(src, 5)
             denominator == [p \in DOMAIN green |-> green[p] + nir[p]]
             ndwi == [p \in DOMAIN green |-> divide_where(green[p] - nir[p], denominator[p])]
             water_mask == [p \in DOMAIN ndwi |-> Greater(ndwi[p], ndwi_threshold)]
             nr == normalize_band(red, h, w)
             ng == normalize_band(green, h, w)
             nb == normalize_band(blue, h, w)
             natural_color_image == dstack(nr.scaled, ng.scaled, nb.scaled)
             converted ==
                 [p \in DOMAIN natural_color_image |->
                     [c \in 1..3 |->
                         astype_uint8(Times255(natural_color_image[p][c]), build)]]
             heap0 == [x \in {1} |-> converted]
             copied == ArrayCopy(heap0, 1)
             heap1 == MaskedAssign(copied.heap, copied.ref, water_mask, HighlightColor)
         IN  IF nr.raised \/ ng.raised \/ nb.raised
             THEN RaiseFrom(IndexError,
                            [fn |-> "highlight_water_bodies",
                             ndwi |-> ndwi, water_mask |-> water_mask])
             ELSE Return(heap1[copied.ref],
                         [fn |-> "highlight_water_bodies",
                          ndwi |-> ndwi,
                          water_mask |-> water_mask,
                          stretch |-> <<nr, ng, nb>>,
                          converted |-> converted,
                          background_image |-> heap1[1]])

highlight_water_bodies(file, ndwi_threshold, build) ==
    IF file.kind = "none"
    THEN Raise(GrError(PleaseUpload, 0 - 1, ""))
    ELSE TryExcept(IF file.kind = "unreadable"
                   THEN Raise(RasterioIOError)
                   ELSE WaterBody(file, ndwi_threshold, build))

----------------------------------------------------------------------------
(* The state machine: requests to the two handlers, in any order.  call,     *)
(* outcome and frame describe the latest request.                            *)

\* the cast of NaN to uint8 is unspecified: the builds give 0 or 255
Builds == [nan_cast : {0, 255}]

Bands(h, w) == [Pos(h, w) -> Samples]

\* for the bands that are only contrast-stretched: no positive sample, one
\* positive value, two positive values
StretchBands(h, w) ==
    {ZeroBand(h, w),
     [p \in Pos(h, w) |-> MaxSample],
     [p \in Pos(h, w) |-> IF p = <<1, 1>> THEN 1 ELSE MaxSample]}

NoCall == [fn |-> "none", ndwi_threshold |-> <<0, 1>>]

NoOutcome == [kind |-> "none", exc |-> NoException, image |-> <<>>]

\* before the first request: no file, a file rasterio cannot open, or a file of `files`
Start(files) ==
    /\ \/ tiff_file = NoFile
       \/ tiff_file = Unreadable
       \/ files
    /\ numpy_build \in Builds
    /\ call = NoCall
    /\ outcome = NoOutcome
    /\ frame = NoFrame

\* rasters of 1 to MaxBands bands; with 7 or MaxBands bands, bands 2, 3 and 7
\* vary; every other band is zero
CompositeRasters ==
    \E s \in Shapes, c \in 1..MaxBands :
        \/ c \notin {7, MaxBands}
           /\ tiff_file = Dataset(c, s[1], s[2], [i \in 1..c |-> ZeroBand(s[1], s[2])])
        \/ /\ c \in {7, MaxBands}
           /\ \E b2 \in Bands(s[1], s[2]), b3 \in Bands(s[1], s[2]), b7 \in Bands(s[1], s[2]) :
                tiff_file = Dataset(c, s[1], s[2],
                    [i \in 1..c |-> IF i = 7 THEN b7 ELSE IF i = 3 THEN b3
                                    ELSE IF i = 2 THEN b2 ELSE ZeroBand(s[1], s[2])])

\* rasters of 1 to MaxBands bands; with 5 bands, green (3) and nir (5) vary,
\* blue (2) and red (4) are stretch bands; every other band is zero
WaterRasters ==
    \E s \in Shapes, c \in 1..MaxBands :
        \/ c # 5
           /\ tiff_file = Dataset(c, s[1], s[2], [i \in 1..c |-> ZeroBand(s[1], s[2])])
        \/ /\ c = 5
           /\ \E b3 \in Bands(s[1], s[2]), b5 \in Bands(s[1], s[2]),
                 b2 \in StretchBands(s[1], s[2]), b4 \in StretchBands(s[1], s[2]) :
                tiff_file = Dataset(c, s[1], s[2], <<ZeroBand(s[1], s[2]), b2, b3, b4, b5>>)

Init == Start(CompositeRasters)

InitWater == Start(WaterRasters)

CreateFalseColorComposite ==
    /\ LET r == create_false_color_composite(tiff_file, numpy_build)
       IN  /\ call' = [fn |-> "create_false_color_composite", ndwi_threshold |-> <<0, 1>>]
           /\ outcome' = [kind |-> r.kind, exc |-> r.exc, image |-> r.image]
           /\ frame' = r.frame
    /\ UNCHANGED <<tiff_file, numpy_build>>

HighlightWaterBodies ==
    /\ \E t \in Thresholds :
        LET r == highlight_water_bodies(tiff_file, t, numpy_build)
        IN  /\ call' = [fn |-> "highlight_water_bodies", ndwi_threshold |-> t]
            /\ outcome' = [kind |-> r.kind, exc |-> r.exc, image |-> r.image]
            /\ frame' = r.frame
    /\ UNCHANGED <<tiff_file, numpy_build>>

NextComposite == CreateFalseColorComposite

Next == CreateFalseColorComposite \/ HighlightWaterBodies

\* the false-colour handler on the rasters whose composite bands vary
Spec == Init /\ [][NextComposite]_vars

\* both handlers on the rasters whose water bands vary
SpecWater == InitWater /\ [][Next]_vars

----------------------------------------------------------------------------
(* Vocabulary of the properties *)

Composite == "create_false_color_composite"

Water == "highlight_water_bodies"

IsDataset == tiff_file.kind = "dataset"

Pixels == Pos(tiff_file.height, tiff_file.width)

\* band b of the uploaded raster at pixel p
Sample(b, p) == tiff_file.bands[b][p]

\* the band shown in channel c of the false-colour composite
ChannelBand(c) == CASE c = 1 -> 7 [] c = 2 -> 3 [] c = 3 -> 2

StackedSamples == {Sample(ChannelBand(c), p) : c \in 1..3, p \in Pixels}

\* the minimum and the maximum over the three stacked channels together
JointMin == CHOOSE m \in StackedSamples : \A v \in StackedSamples : m <= v

JointMax == CHOOSE m \in StackedSamples : \A v \in StackedSamples : m >= v

CompositeReturned ==
    /\ call.fn = Composite
    /\ IsDataset
    /\ tiff_file.count >= 7
    /\ outcome.kind = "return"

WaterCalled == call.fn = Water /\ IsDataset /\ tiff_file.count >= 5

WaterReturned == WaterCalled /\ outcome.kind = "return"

----------------------------------------------------------------------------
(* C1: a raster with fewer than 7 bands (composite) or fewer than 5 bands    *)
(* (water detection) makes the call fail with the insufficient-bands error   *)
(* carrying the raster's band count; that error, not another kind, reaches   *)
(* the caller, and no image is returned.                                     *)
C1_InsufficientBandsReachesCaller ==
    /\ (call.fn = Composite /\ IsDataset /\ tiff_file.count < 7) =>
          /\ outcome.kind = "raise"
          /\ outcome.exc.text = OnlyBands7
          /\ outcome.exc.count = tiff_file.count
          /\ outcome.image = <<>>
    /\ (call.fn = Water /\ IsDataset /\ tiff_file.count < 5) =>
          /\ outcome.kind = "raise"
          /\ outcome.exc.text = OnlyBands5
          /\ outcome.exc.count = tiff_file.count
          /\ outcome.image = <<>>

----------------------------------------------------------------------------
(* C2: on a raster of at least 7 bands the composite is an image of shape    *)
(* height x width x 3 with every element in 0..255, and its channels are     *)
(* bands 7, 3 and 2 in that order: the image orders any two samples of those *)
(* bands as the raster does, the largest sample shown as 255 and the         *)
(* smallest as 0 unless the three bands are flat.                            *)
C2_CompositeShapeRangeChannels ==
    (call.fn = Composite /\ IsDataset /\ tiff_file.count >= 7) =>
        /\ outcome.kind = "return"
        /\ DOMAIN outcome.image = Pixels
        /\ \A p \in Pixels :
              /\ DOMAIN outcome.image[p] = 1..3
              /\ \A c \in 1..3 : outcome.image[p][c] \in 0..255
        /\ \A p \in Pixels, q \in Pixels, c \in 1..3, d \in 1..3 :
              Sample(ChannelBand(c), p) <= Sample(ChannelBand(d), q)
                  => outcome.image[p][c] <= outcome.image[q][d]
        /\ JointMin # JointMax =>
              \A p \in Pixels, c \in 1..3 :
                  /\ Sample(ChannelBand(c), p) = JointMax => outcome.image[p][c] = 255
                  /\ Sample(ChannelBand(c), p) = JointMin => outcome.image[p][c] = 0

\* a composite whose first channel holds 0 and 255 while band 7 differs from
\* bands 3 and 2 at every pixel
C2_Witness ==
    /\ CompositeReturned
    /\ \E p \in Pixels, q \in Pixels :
          outcome.image[p][1] = 0 /\ outcome.image[q][1] = 255
    /\ \A p \in Pixels :
          /\ Sample(7, p) # Sample(3, p)
          /\ Sample(7, p) # Sample(2, p)

(* C3, as stated: when the joint minimum and maximum differ, every output    *)
(* sample is (value - min) / (max - min) * 255 rounded to the nearest        *)
(* integer, that is, at most one half away from it (a half either way).      *)
C3_RoundedRescale ==
    (CompositeReturned /\ JointMin # JointMax) =>
        \A p \in Pixels, c \in 1..3 :
            LET n == 255 * (Sample(ChannelBand(c), p) - JointMin)
                d == JointMax - JointMin
                out == outcome.image[p][c]
            IN  /\ 2 * (n - out * d) <= d
                /\ 2 * (out * d - n) <= d

(* C3, amended: when the joint minimum and maximum differ, every output      *)
(* sample is (value - min) / (max - min) * 255 truncated to an integer, min  *)
(* and max being taken over the three channels together; a sample equal to   *)
(* min gives 0 and a sample equal to max gives 255.                          *)
C3_TruncatedRescale ==
    (CompositeReturned /\ JointMin # JointMax) =>
        /\ frame.min_val = JointMin
        /\ frame.max_val = JointMax
        /\ \A p \in Pixels, c \in 1..3 :
              LET n == 255 * (Sample(ChannelBand(c), p) - JointMin)
                  d == JointMax - JointMin
                  out == outcome.image[p][c]
              IN  /\ out * d <= n
                  /\ n < (out + 1) * d
                  /\ Sample(ChannelBand(c), p) = JointMin => out = 0
                  /\ Sample(ChannelBand(c), p) = JointMax => out = 255

\* a composite with a sample whose exact value lies above the half: rounding
\* would have given the next integer
C3_Witness ==
    /\ CompositeReturned
    /\ JointMin # JointMax
    /\ \E p \in Pixels, c \in 1..3 :
          LET n == 255 * (Sample(ChannelBand(c), p) - JointMin)
              d == JointMax - JointMin
          IN  2 * (n - outcome.image[p][c] * d) > d

(* C8: when bands 7, 3 and 2 are constant with one common value, the         *)
(* composite is the all-zero image of shape height x width x 3 and the       *)
(* normalising division is not performed.                                    *)
C8_FlatCompositeIsZero ==
    (call.fn = Composite /\ IsDataset /\ tiff_file.count >= 7 /\ JointMin = JointMax) =>
        /\ outcome.kind = "return"
        /\ DOMAIN outcome.image = Pixels
        /\ \A p \in Pixels : outcome.image[p] = <<0, 0, 0>>
        /\ frame.divided = FALSE

\* a flat composite of a raster whose three bands are constant and not zero
C8_Witness ==
    /\ CompositeReturned
    /\ JointMin = JointMax
    /\ JointMin = MaxSample
    /\ \A p \in Pixels : outcome.image[p] = <<0, 0, 0>>

----------------------------------------------------------------------------
(* C4: the NDWI of a pixel is exactly 0 where green + nir = 0, whatever the  *)
(* two samples are, and (green - nir) / (green + nir) elsewhere; it is a     *)
(* finite number at every pixel (nothing was divided by zero) and computing  *)
(* it raises nothing: it is there whenever the function got past its band    *)
(* check.                                                                    *)
C4_NdwiZeroDenominator ==
    WaterCalled =>
        /\ frame.fn = Water
        /\ DOMAIN frame.ndwi = Pixels
        /\ \A p \in Pixels :
              LET green == Sample(3, p)
                  nir == Sample(5, p)
                  index == frame.ndwi[p]
              IN  /\ index[2] > 0
                  /\ green + nir = 0 => index = <<0, 1>>
                  /\ green + nir # 0 =>
                        index[1] * (green + nir) = (green - nir) * index[2]

\* a raster with a pixel of green = 0, nir = 0, one of green = 1, nir = -1, or
\* both kinds, beside a pixel with a non-zero index
C4_Witness ==
    /\ WaterCalled
    /\ \E p \in Pixels, q \in Pixels :
          /\ Sample(3, p) = 1 /\ Sample(5, p) = 0 - 1
          /\ frame.ndwi[p] = <<0, 1>>
          /\ Sample(3, q) + Sample(5, q) # 0
          /\ frame.ndwi[q][1] # 0

(* C5: the water mask is the strict comparison with the threshold: a pixel   *)
(* is in the mask exactly when its index is greater than the threshold, so   *)
(* an index equal to the threshold is left out.                              *)
C5_MaskIsStrictlyGreater ==
    WaterCalled =>
        /\ DOMAIN frame.water_mask = Pixels
        /\ \A p \in Pixels :
              frame.water_mask[p] =
                  (frame.ndwi[p][1] * call.ndwi_threshold[2]
                      > call.ndwi_threshold[1] * frame.ndwi[p][2])

\* one pixel whose index equals the threshold and is left out, another whose
\* index is above it and is in the mask
C5_Witness ==
    /\ WaterCalled
    /\ \E p \in Pixels, q \in Pixels :
          /\ frame.ndwi[p][1] * call.ndwi_threshold[2]
                = call.ndwi_threshold[1] * frame.ndwi[p][2]
          /\ ~frame.water_mask[p]
          /\ frame.ndwi[q][1] * call.ndwi_threshold[2]
                > call.ndwi_threshold[1] * frame.ndwi[q][2]
          /\ frame.water_mask[q]

(* C6: in the returned image a pixel of the mask is the highlight colour     *)
(* (60, 130, 255) and any other pixel is the background pixel; the           *)
(* background image is, after the call, what it was before the mask was      *)
(* applied.                                                                  *)
C6_MaskCompositing ==
    WaterReturned =>
        /\ DOMAIN outcome.image = Pixels
        /\ \A p \in Pixels :
              /\ frame.water_mask[p] => outcome.image[p] = <<60, 130, 255>>
              /\ ~frame.water_mask[p] => outcome.image[p] = frame.converted[p]
        /\ frame.background_image = frame.converted

\* an image with a highlighted pixel and a background pixel of another colour
C6_Witness ==
    /\ WaterReturned
    /\ \E p \in Pixels, q \in Pixels :
          /\ frame.water_mask[p]
          /\ frame.converted[p] # <<60, 130, 255>>
          /\ outcome.image[p] = <<60, 130, 255>>
          /\ ~frame.water_mask[q]
          /\ outcome.image[q] = frame.converted[q]
          /\ outcome.image[q] # <<60, 130, 255>>

(* C7: a band whose 2nd and 98th percentile are equal is stretched to zeros  *)
(* without dividing by p98 - p2; so constant red, green and blue bands with  *)
(* an all-false mask give a background whose every element comes from a     *)
(* defined value.                                                            *)
C7_DegenerateStretchGuarded ==
    WaterReturned =>
        /\ \A k \in 1..3 :
              frame.stretch[k].p2 = frame.stretch[k].p98 =>
                  \A p \in Pixels :
                      /\ frame.stretch[k].scaled[p][2] # 0
                      /\ frame.stretch[k].scaled[p][1] = 0
        /\ ( /\ \A b \in {2, 3, 4}, p \in Pixels, q \in Pixels : Sample(b, p) = Sample(b, q)
             /\ \A p \in Pixels : ~frame.water_mask[p] ) =>
              \A p \in Pixels, k \in 1..3 :
                  /\ frame.stretch[k].scaled[p][2] # 0
                  /\ outcome.image[p][k] \in 0..255

====
